---- MODULE Spec2Model ----
(***************************************************************************)
(* A model of CSV_data_quality_checker.py: the four analyzers              *)
(* (check_missing_values, check_duplicates, check_data_types,              *)
(* check_outliers) as operators on a dataset, and analyze_csv as a state   *)
(* machine that loads a file, runs the analyzers, writes the report and    *)
(* prints the summary.                                                     *)
(*                                                                         *)
(* Numbers.  A numeric cell is an integer count of 1/Unit (Unit = 256), so *)
(* that every cell, quantile and fence of the model is a binary fraction   *)
(* that float64 holds exactly: the model's arithmetic is the code's.       *)
(* Percentages and reported bounds are integers in hundredths (3333 is     *)
(* 33.33), which is what round(x, 2) keeps.                                *)
(***************************************************************************)
EXTENDS Integers, Sequences, FiniteSets, TLC

VARIABLES
    file,        \* the input path: "absent", "empty" (no header) or "table"
    rows,        \* the data rows of the file, in file order
    pc,          \* position of analyze_csv / of the caller
    df,          \* the loaded dataset: a sequence of rows, a row a tuple over Cols
    ran,         \* the analyzers that have returned
    results,     \* the results dict under construction
    report,      \* the HTML report file: [written, content]
    console,     \* TRUE once the console summary has been printed
    log,         \* the messages given to logger.error, in order
    raised,      \* the exception that left analyze_csv, or "None"
    returned,    \* TRUE once analyze_csv has returned results
    total_rows,  \* len(df) of a column summary       (SpecPct)
    missing,     \* missing[col] of a column summary  (SpecPct)
    issue        \* the entry check_missing_values appends for it (SpecPct)

tableVars == <<file, rows, pc, df, ran, results, report, console, log, raised, returned>>
colVars == <<total_rows, missing, issue>>
vars == <<file, rows, pc, df, ran, results, report, console, log, raised, returned,
          total_rows, missing, issue>>

----------------------------------------------------------------------------
(* Bounds *)

MaxRows == 3

MaxOutRows == 5

MaxTotalRows == 20001

MaxMissing == 2

----------------------------------------------------------------------------
(* Cells and columns *)

Unit == 2 ^ 8

Cols == <<"a", "b">>

NULL == [kind |-> "null", val |-> 0]

Num(n) == [kind |-> "num", val |-> n]

Int64(n) == Num(n * Unit)

Text(i) == [kind |-> "str", val |-> i]

isnull(c) == c.kind = "null"

ColIdx == 1 .. Len(Cols)

RowIdx(d) == 1 .. Len(d)

\* the rows whose cell in column j is present (dropna)
Present(d, j) == {i \in RowIdx(d) : ~isnull(d[i][j])}

\* the dtype pandas infers for column j
dtype(d, j) ==
    IF Len(d) = 0 THEN "object"
    ELSE IF \E i \in RowIdx(d) : d[i][j].kind = "str" THEN "object"
    ELSE IF \A i \in RowIdx(d) : d[i][j].kind = "num" /\ d[i][j].val % Unit = 0
         THEN "int64"
    ELSE "float64"

----------------------------------------------------------------------------
(* round(x, 2): num/den to the nearest hundredth, ties to even *)

RoundHalfEven(num, den) ==
    LET f == num \div den
        r == num - f * den
    IN  IF 2 * r < den THEN f
        ELSE IF 2 * r > den THEN f + 1
        ELSE IF f % 2 = 0 THEN f ELSE f + 1

\* a percentage cut, not rounded, to 2 decimals
PctTruncated(count, n) == (count * 100 * 100) \div n

\* round((count / n) * 100, 2), in hundredths
Pct(count, n) == RoundHalfEven(count * 100 * 100, n)

----------------------------------------------------------------------------
(* check_missing_values *)

\* df.isnull().sum()[col]
MissingCount(d, j) == Cardinality({i \in RowIdx(d) : isnull(d[i][j])})

\* the dict appended for a column with missing cells
MissingEntry(col, cnt, n) ==
    [column |-> col, missing_count |-> cnt, missing_percentage |-> Pct(cnt, n)]

RECURSIVE MissingIssues(_, _)
MissingIssues(d, j) ==
    IF j > Len(Cols) THEN <<>>
    ELSE (IF MissingCount(d, j) > 0
          THEN <<MissingEntry(Cols[j], MissingCount(d, j), Len(d))>>
          ELSE <<>>) \o MissingIssues(d, j + 1)

\* an entry for every column, also one with no missing cell
check_missing_values_all(d) ==
    [j \in ColIdx |-> MissingEntry(Cols[j], MissingCount(d, j), IF Len(d) = 0 THEN 1 ELSE Len(d))]

check_missing_values(d) == MissingIssues(d, 1)

----------------------------------------------------------------------------
(* check_duplicates *)

\* only a row equal to the row right before it
duplicatedAdjacent(d) == {i \in RowIdx(d) : i > 1 /\ d[i - 1] = d[i]}

\* only the rows of a pair: a row that exactly one other row equals
duplicatedPairs(d) ==
    {i \in RowIdx(d) : Cardinality({k \in RowIdx(d) : k # i /\ d[k] = d[i]}) = 1}

\* df.duplicated(): the rows equal to an earlier row (keep='first')
duplicated(d) == {i \in RowIdx(d) : \E k \in 1 .. (i - 1) : d[k] = d[i]}

check_duplicates(d) ==
    LET dup_count == Cardinality(duplicated(d))
    IN  [duplicate_rows |-> dup_count,
         duplicate_percentage |-> IF Len(d) > 0 THEN Pct(dup_count, Len(d)) ELSE 0]

----------------------------------------------------------------------------
(* check_data_types *)

\* df[col] as a sequence of cells
Column(d, j) == [i \in RowIdx(d) |-> d[i][j]]

dropna(s) == SelectSeq(s, LAMBDA c : ~isnull(c))

head(s, n) == SubSeq(s, 1, IF Len(s) < n THEN Len(s) ELSE n)

nunique(d, j) == Cardinality({d[i][j] : i \in Present(d, j)})

TypeEntry(d, j) ==
    [column |-> Cols[j],
     data_type |-> dtype(d, j),
     unique_values |-> nunique(d, j),
     sample_values |-> head(dropna(Column(d, j)), 3)]

\* skips a column that has no present value
check_data_types_nonempty(d) ==
    LET kept == SelectSeq([j \in ColIdx |-> j], LAMBDA j : nunique(d, j) > 0)
    IN  [k \in 1 .. Len(kept) |-> TypeEntry(d, kept[k])]

check_data_types(d) == [j \in ColIdx |-> TypeEntry(d, j)]

----------------------------------------------------------------------------
(* check_outliers *)

ColSeq == [j \in ColIdx |-> j]

\* df.select_dtypes(include=['int64', 'float64']).columns
numeric_cols(d) == SelectSeq(ColSeq, LAMBDA j : dtype(d, j) \in {"int64", "float64"})

\* the k-th smallest (from 0) of the present values of column j
Kth(d, j, k) ==
    CHOOSE v \in {d[i][j].val : i \in Present(d, j)} :
        /\ Cardinality({i \in Present(d, j) : d[i][j].val < v}) <= k
        /\ k < Cardinality({i \in Present(d, j) : d[i][j].val <= v})

\* interpolation='lower': the rank below the position, no interpolation
Quantile4Lower(d, j, q4) ==
    4 * Kth(d, j, ((Cardinality(Present(d, j)) - 1) * q4) \div 4)

\* 4 * df[col].quantile(q4 / 4): linear interpolation between the two ranks
\* around position (m - 1) * q4 / 4 of the m present values
Quantile4(d, j, q4) ==
    LET m == Cardinality(Present(d, j))
        pos4 == (m - 1) * q4
        lo == pos4 \div 4
        fr == pos4 % 4
        a == Kth(d, j, lo)
        b == IF fr = 0 THEN a ELSE Kth(d, j, lo + 1)
    IN  4 * a + fr * (b - a)

\* 8 * lower_bound and 8 * upper_bound; nan when the column has no present
\* value (its quantiles are NaN and every comparison with them is False)
Fences(d, j) ==
    IF Present(d, j) = {} THEN [nan |-> TRUE, lower8 |-> 0, upper8 |-> 0]
    ELSE LET Q1 == Quantile4(d, j, 1)
             Q3 == Quantile4(d, j, 3)
             IQR == Q3 - Q1
         IN  [nan |-> FALSE, lower8 |-> 2 * Q1 - 3 * IQR, upper8 |-> 2 * Q3 + 3 * IQR]

\* <= and >= in place of < and >
OutlierRowsInclusive(d, j) ==
    LET f == Fences(d, j)
    IN  IF f.nan THEN {}
        ELSE {i \in Present(d, j) :
                 8 * d[i][j].val <= f.lower8 \/ 8 * d[i][j].val >= f.upper8}

\* df[(df[col] < lower_bound) | (df[col] > upper_bound)]
OutlierRows(d, j) ==
    LET f == Fences(d, j)
    IN  IF f.nan THEN {}
        ELSE {i \in Present(d, j) :
                 8 * d[i][j].val < f.lower8 \/ 8 * d[i][j].val > f.upper8}

\* round(bound, 2), in hundredths
Round2(x8) == RoundHalfEven(x8 * 100, 8 * Unit)

OutlierEntry(d, j) ==
    LET n == Cardinality(OutlierRows(d, j))
    IN  [column |-> Cols[j],
         outlier_count |-> n,
         outlier_percentage |-> Pct(n, Len(d)),
         lower_bound |-> Round2(Fences(d, j).lower8),
         upper_bound |-> Round2(Fences(d, j).upper8)]

check_outliers(d) ==
    LET flagged == SelectSeq(numeric_cols(d), LAMBDA j : Cardinality(OutlierRows(d, j)) > 0)
    IN  [k \in 1 .. Len(flagged) |-> OutlierEntry(d, flagged[k])]

----------------------------------------------------------------------------
(* The state machine *)

Analyzers == {"missing_values", "duplicates", "data_types", "outliers"}

\* the order in which the results dict literal evaluates them
Order == <<"missing_values", "duplicates", "data_types", "outliers">>

Before(a) == {Order[k] : k \in {n \in 1 .. Len(Order) : \E m \in (n + 1) .. Len(Order) : Order[m] = a}}

EmptyResults ==
    [total_rows |-> 0, total_columns |-> 0,
     missing_values |-> <<>>,
     duplicates |-> [duplicate_rows |-> 0, duplicate_percentage |-> 0],
     data_types |-> <<>>,
     outliers |-> <<>>]

\* what analyzer a returns on d
Output(a, d) ==
    CASE a = "missing_values" -> check_missing_values(d)
      [] a = "duplicates" -> check_duplicates(d)
      [] a = "data_types" -> check_data_types(d)
      [] a = "outliers" -> check_outliers(d)

\* check_data_types dropping the rows with a missing cell in place
EffectDropna(a, d) ==
    IF a = "data_types"
    THEN SelectSeq(d, LAMBDA r : \A j \in ColIdx : ~isnull(r[j]))
    ELSE d

\* the dataset after analyzer a has run on d: no analyzer assigns into df or
\* calls an in-place method of it
Effect(a, d) == d

\* the rows a test file may hold: column a numeric, column b text
RowPool == {<<x, y>> : x \in {NULL, Int64(1), Int64(2)}, y \in {NULL, Text(1), Text(2)}}

\* the rows of the outlier runs: 1, 1 + 1/256, 2, 3, 4, 100 or a missing cell
NumVals == {NULL, Int64(1), Num(Unit + 1), Int64(2), Int64(3), Int64(4), Int64(100)}

NumRowPool == {<<x, Text(1)>> : x \in NumVals}

InitTable ==
    /\ rows = <<>>
    /\ pc = "idle"
    /\ df = <<>>
    /\ ran = {}
    /\ results = EmptyResults
    /\ report = [written |-> FALSE, content |-> EmptyResults]
    /\ console = FALSE
    /\ log = <<>>
    /\ raised = "None"
    /\ returned = FALSE

Init ==
    /\ file \in {"absent", "empty", "table"}
    /\ InitTable
    /\ total_rows = 0
    /\ missing = 0
    /\ issue = <<>>

\* the environment writes one more data row to the file before the run
AppendRow ==
    /\ pc = "idle"
    /\ file = "table"
    /\ Len(rows) < MaxRows
    /\ \E r \in RowPool : rows' = Append(rows, r)
    /\ UNCHANGED <<file, pc, df, ran, results, report, console, log, raised, returned>>
    /\ UNCHANGED colVars

AppendNumRow ==
    /\ pc = "idle"
    /\ file = "table"
    /\ Len(rows) < MaxOutRows
    /\ \E r \in NumRowPool : rows' = Append(rows, r)
    /\ UNCHANGED <<file, pc, df, ran, results, report, console, log, raised, returned>>
    /\ UNCHANGED colVars

\* pd.read_csv and the two handlers for what it raises on a path that does
\* not exist and on a file with no columns; a header with no data rows loads
\* as a dataset of zero rows
ReadCsv ==
    /\ pc = "idle"
    /\ \/ /\ file = "absent"
          /\ log' = Append(log, "File not found")
          /\ raised' = "FileNotFoundError"
          /\ pc' = "raised"
          /\ UNCHANGED <<df, results>>
       \/ /\ file = "empty"
          /\ log' = Append(log, "The CSV file is empty")
          /\ raised' = "EmptyDataError"
          /\ pc' = "raised"
          /\ UNCHANGED <<df, results>>
       \/ /\ file = "table"
          /\ df' = rows
          /\ results' = [results EXCEPT !.total_rows = Len(rows),
                                        !.total_columns = Len(Cols)]
          /\ pc' = "loaded"
          /\ UNCHANGED <<log, raised>>
    /\ UNCHANGED <<file, rows, ran, report, console, returned>>
    /\ UNCHANGED colVars

\* any other exception out of pd.read_csv (a data row that does not parse)
LoadFails ==
    /\ pc = "idle"
    /\ file = "table"
    /\ Len(rows) > 0
    /\ log' = Append(log, "Error analyzing CSV")
    /\ raised' = "Exception"
    /\ pc' = "raised"
    /\ UNCHANGED <<file, rows, df, ran, results, report, console, returned>>
    /\ UNCHANGED colVars

\* an exception out of the analyzer that is next: the dict is never bound
AnalyzerFails ==
    /\ pc = "loaded"
    /\ ran # Analyzers
    /\ log' = Append(log, "Error analyzing CSV")
    /\ raised' = "Exception"
    /\ pc' = "raised"
    /\ results' = EmptyResults
    /\ UNCHANGED <<file, rows, df, ran, report, console, returned>>
    /\ UNCHANGED colVars

\* analyzer a runs on df and its output is kept
Run(a) ==
    /\ pc = "loaded"
    /\ a \notin ran
    /\ results' = [results EXCEPT ![a] = Output(a, df)]
    /\ ran' = ran \cup {a}
    /\ df' = Effect(a, df)
    /\ UNCHANGED <<file, rows, pc, report, console, log, raised, returned>>
    /\ UNCHANGED colVars

RunInOrder(a) == ran = Before(a) /\ Run(a)

RunMissingValues == RunInOrder("missing_values")

RunDuplicates == RunInOrder("duplicates")

RunDataTypes == RunInOrder("data_types")

RunOutliers == RunInOrder("outliers")

\* the report written as soon as one analyzer has returned
GenerateReportEarly ==
    /\ pc = "loaded"
    /\ ran # {}
    /\ report' = [written |-> TRUE, content |-> results]
    /\ pc' = "reported"
    /\ UNCHANGED <<file, rows, df, ran, results, console, log, raised, returned>>
    /\ UNCHANGED colVars

\* generate_html_report(results, output_path)
GenerateReport ==
    /\ pc = "loaded"
    /\ ran = Analyzers
    /\ report' = [written |-> TRUE, content |-> results]
    /\ pc' = "reported"
    /\ UNCHANGED <<file, rows, df, ran, results, console, log, raised, returned>>
    /\ UNCHANGED colVars

\* the console summary, then return results
PrintSummary ==
    /\ pc = "reported"
    /\ console' = TRUE
    /\ returned' = TRUE
    /\ pc' = "done"
    /\ UNCHANGED <<file, rows, df, ran, results, report, log, raised>>
    /\ UNCHANGED colVars

\* analyze_csv on a file the environment has written
Next ==
    \/ AppendRow
    \/ ReadCsv
    \/ LoadFails
    \/ RunMissingValues
    \/ RunDuplicates
    \/ RunDataTypes
    \/ RunOutliers
    \/ AnalyzerFails
    \/ GenerateReport
    \/ PrintSummary

Spec == Init /\ [][Next]_vars

\* a caller that loads the dataset and calls the analyzers in any order
CallAnalyzer == \E a \in Analyzers : Run(a)

NextAnyOrder == AppendRow \/ ReadCsv \/ CallAnalyzer

SpecAnyOrder == Init /\ [][NextAnyOrder]_vars

\* check_outliers called on a dataset with a numeric and a text column
CallOutliers == Run("outliers")

NextOutliers == AppendNumRow \/ ReadCsv \/ CallOutliers

SpecOutliers == Init /\ [][NextOutliers]_vars

\* the body of check_missing_values' loop for one column of total_rows cells
\* of which missing are missing
InitPct ==
    /\ file = "table"
    /\ InitTable
    /\ total_rows \in 1 .. MaxTotalRows
    /\ missing \in 0 .. (IF total_rows < MaxMissing THEN total_rows ELSE MaxMissing)
    /\ issue = <<>>

ReportMissing ==
    /\ issue = <<>>
    /\ missing > 0
    /\ issue' = <<MissingEntry("a", missing, total_rows)>>
    /\ UNCHANGED <<total_rows, missing>>
    /\ UNCHANGED tableVars

NextPct == ReportMissing

SpecPct == InitPct /\ [][NextPct]_vars

----------------------------------------------------------------------------
(* Properties *)

\* analyzer a has returned and its output is held in results
Have(a) == a \in ran /\ pc # "raised"

ColPos(name) == CHOOSE j \in ColIdx : Cols[j] = name

Abs(x) == IF x < 0 THEN -x ELSE x

\* p (in hundredths) is 100 * count / n to 2 decimal places
IsPct(p, count, n) == 2 * Abs(p * n - 100 * 100 * count) <= n

\* C1: check_missing_values returns an entry for a column if and only if the
\* column has a missing cell; each reported column appears once, with
\* missing_count its number of missing cells, and the entries follow the
\* column declaration order.
C1_MissingEntries ==
    Have("missing_values") =>
        LET mv == results.missing_values
        IN  /\ \A j \in ColIdx :
                (\E k \in 1 .. Len(mv) : mv[k].column = Cols[j])
                    <=> (\E i \in RowIdx(df) : df[i][j] = NULL)
            /\ \A k \in 1 .. Len(mv) :
                /\ mv[k].column \in {Cols[j] : j \in ColIdx}
                /\ mv[k].missing_count =
                       Cardinality({i \in RowIdx(df) : df[i][ColPos(mv[k].column)] = NULL})
                /\ \A m \in 1 .. Len(mv) :
                       k < m => ColPos(mv[k].column) < ColPos(mv[m].column)

\* column b has two missing cells of three and is the only entry
C1_Witness ==
    /\ Have("missing_values")
    /\ Len(df) = 3
    /\ \A i \in RowIdx(df) : df[i][1] # NULL
    /\ Len(results.missing_values) = 1
    /\ results.missing_values[1].column = "b"
    /\ results.missing_values[1].missing_count = 2

\* C3: duplicate_rows is the number of rows equal, column by column, to some
\* earlier row (a missing cell equal to a missing cell of the same column),
\* adjacent or not, the first occurrence not counted; duplicate_percentage is
\* 100 * duplicate_rows / total_rows to 2 decimals, 0 for no rows.
C3_Duplicates ==
    Have("duplicates") =>
        LET later == {i \in RowIdx(df) :
                         \E k \in RowIdx(df) :
                             k < i /\ \A j \in ColIdx : df[k][j] = df[i][j]}
            dup == results.duplicates
        IN  /\ dup.duplicate_rows = Cardinality(later)
            /\ IF Len(df) = 0 THEN dup.duplicate_percentage = 0
               ELSE IsPct(dup.duplicate_percentage, dup.duplicate_rows, Len(df))

\* rows r, s, r with a missing cell in r: the third row is the one duplicate
C3_Witness ==
    /\ Have("duplicates")
    /\ Len(df) = 3
    /\ df[1] = df[3]
    /\ df[2] # df[1]
    /\ df[1][2] = NULL
    /\ results.duplicates = [duplicate_rows |-> 1, duplicate_percentage |-> 3333]

\* C4: appending a row that equals a row already in the dataset never lowers
\* the duplicate count check_duplicates reports.
C4_DuplicatesMonotone ==
    [][(/\ Len(rows') = Len(rows) + 1
        /\ SubSeq(rows', 1, Len(rows)) = rows
        /\ \E i \in RowIdx(rows) : rows[i] = rows'[Len(rows')])
       => check_duplicates(rows').duplicate_rows >= check_duplicates(rows).duplicate_rows]_vars

\* the last row appended equals an earlier one and has been counted
C4_Witness ==
    /\ Have("duplicates")
    /\ Len(df) = 3
    /\ df[3] = df[1]
    /\ df[2] = df[1]
    /\ results.duplicates.duplicate_rows = 2

\* C7: check_data_types returns one entry per column, in declaration order,
\* whatever the column holds; the data_types list analyze_csv returns is as
\* long as total_columns.
C7_OneEntryPerColumn ==
    Have("data_types") =>
        /\ Len(results.data_types) = Len(Cols)
        /\ \A j \in ColIdx : results.data_types[j].column = Cols[j]
        /\ Len(results.data_types) = results.total_columns

\* a column with nothing but missing cells, and a duplicate row, are described
C7_Witness ==
    /\ returned
    /\ Len(df) = 2
    /\ df[1] = df[2]
    /\ \A i \in RowIdx(df) : df[i][2] = NULL
    /\ results.data_types[2].unique_values = 0

\* C8: a file that parses to zero rows or to zero columns makes analyze_csv
\* stop with the empty-input error before any analyzer runs: nothing is
\* returned and no report is written.
C8_EmptyInputAborts ==
    (pc # "idle" /\ (file = "empty" \/ (file = "table" /\ Len(rows) = 0))) =>
        /\ pc = "raised"
        /\ raised = "EmptyDataError"
        /\ ran = {}
        /\ ~report.written
        /\ ~returned

\* C9: when loading or an analyzer fails, the failure is logged and raised
\* and no report is written; the report is written only once all four
\* analyzers have returned, and the summary is printed only after the report.
C9_NoPartialReport ==
    /\ raised # "None" =>
           /\ pc = "raised"
           /\ Len(log) = 1
           /\ ~report.written
           /\ ~console
           /\ ~returned
    /\ report.written =>
           /\ ran = Analyzers
           /\ raised = "None"
           /\ report.content = results
    /\ console => report.written

\* the fourth analyzer failed after three had returned: no report
C9_Witness ==
    /\ raised = "Exception"
    /\ Cardinality(ran) = 3
    /\ Len(df) > 0
    /\ log = <<"Error analyzing CSV">>
    /\ ~report.written

\* C10: the analyzers only read the dataset: called in any order they leave
\* it as loaded, and each returns what it returns on the loaded dataset,
\* which is its output in analyze_csv's order.
C10_ReadOnlyAnyOrder ==
    pc = "loaded" =>
        /\ df = rows
        /\ \A a \in ran : results[a] = Output(a, rows)

\* check_outliers and check_data_types have run before the other two, on a
\* dataset with a missing cell
C10_Witness ==
    /\ pc = "loaded"
    /\ ran = {"outliers", "data_types"}
    /\ Len(df) = 3
    /\ df[2][1] = NULL

\* the present values of column j up to row i, in ascending order
RECURSIVE SortedVals(_, _, _)
SortedVals(d, j, i) ==
    IF i = 0 THEN <<>>
    ELSE LET s == SortedVals(d, j, i - 1)
         IN  IF isnull(d[i][j]) THEN s
             ELSE LET v == d[i][j].val
                      k == Cardinality({n \in 1 .. Len(s) : s[n] <= v})
                  IN  SubSeq(s, 1, k) \o <<v>> \o SubSeq(s, k + 1, Len(s))

\* 4 * the q4-th quartile of the ascending sequence s by linear interpolation
Quartile4(s, q4) ==
    LET p == (Len(s) - 1) * q4
        lo == (p \div 4) + 1
        fr == p % 4
    IN  IF fr = 0 THEN 4 * s[lo] ELSE (4 - fr) * s[lo] + fr * s[lo + 1]

\* 8 * (Q1 - 1.5 * IQR) and 8 * (Q3 + 1.5 * IQR)
Low8(s) == 2 * Quartile4(s, 1) - 3 * (Quartile4(s, 3) - Quartile4(s, 1))

High8(s) == 2 * Quartile4(s, 3) + 3 * (Quartile4(s, 3) - Quartile4(s, 1))

\* the rows of column j below Q1 - 1.5 * IQR or above Q3 + 1.5 * IQR
Beyond(d, j) ==
    LET s == SortedVals(d, j, Len(d))
    IN  IF s = <<>> THEN {}
        ELSE {i \in RowIdx(d) :
                 /\ ~isnull(d[i][j])
                 /\ (8 * d[i][j].val < Low8(s) \/ 8 * d[i][j].val > High8(s))}

\* x (in hundredths) is x8 / 8 to 2 decimal places
IsRound2(x, x8) == 2 * Abs(x * 8 * Unit - 100 * x8) <= 8 * Unit

TheExample == <<Int64(1), Int64(2), Int64(3), Int64(4), Int64(100)>>

\* C5 as stated: the reported lower_bound is at most the reported
\* upper_bound, and every row counted in outlier_count has a value strictly
\* outside the reported interval [lower_bound, upper_bound].
C5_OutsideReportedInterval ==
    Have("outliers") =>
        \A k \in 1 .. Len(results.outliers) :
            LET e == results.outliers[k]
                j == ColPos(e.column)
            IN  /\ e.lower_bound <= e.upper_bound
                /\ \A i \in OutlierRows(df, j) :
                       \/ 100 * df[i][j].val < e.lower_bound * Unit
                       \/ 100 * df[i][j].val > e.upper_bound * Unit

\* C5 as amended: the reported lower_bound is at most the reported
\* upper_bound, and every row counted in outlier_count has a value strictly
\* outside the interval [Q1 - 1.5 * IQR, Q3 + 1.5 * IQR] before it is rounded,
\* hence below lower_bound + 0.005 or above upper_bound - 0.005.
C5_OutsideUnroundedInterval ==
    Have("outliers") =>
        \A k \in 1 .. Len(results.outliers) :
            LET e == results.outliers[k]
                j == ColPos(e.column)
                s == SortedVals(df, j, Len(df))
            IN  /\ e.lower_bound <= e.upper_bound
                /\ e.outlier_count = Cardinality(OutlierRows(df, j))
                /\ \A i \in OutlierRows(df, j) :
                       /\ 8 * df[i][j].val < Low8(s) \/ 8 * df[i][j].val > High8(s)
                       /\ \/ 200 * df[i][j].val < (2 * e.lower_bound + 1) * Unit
                          \/ 200 * df[i][j].val > (2 * e.upper_bound - 1) * Unit

\* the counted value 1 lies in the reported interval [1.0, 1.0]: the fences
\* are both 1.00390625
C5_Witness ==
    /\ Have("outliers")
    /\ Column(df, 1) = <<Int64(1), Num(Unit + 1), Num(Unit + 1), Num(Unit + 1), Num(Unit + 1)>>
    /\ Len(results.outliers) = 1
    /\ results.outliers[1].outlier_count = 1
    /\ results.outliers[1].lower_bound = 100
    /\ results.outliers[1].upper_bound = 100

C2_PercentagePositive ==
    \A k \in 1 .. Len(issue) :
        /\ IsPct(issue[k].missing_percentage, issue[k].missing_count, total_rows)
        /\ 0 < issue[k].missing_percentage
        /\ issue[k].missing_percentage <= 100 * 100

\* C2 as amended: missing_percentage is 100 * missing_count / total_rows to 2
\* decimal places and lies in [0, 100]; it is 0.0 when fewer than 1 cell in
\* 20000 is missing; 1 missing cell of 3 gives 33.33.
C2_Percentage ==
    \A k \in 1 .. Len(issue) :
        /\ issue[k].missing_count = missing
        /\ IsPct(issue[k].missing_percentage, missing, total_rows)
        /\ 0 <= issue[k].missing_percentage
        /\ issue[k].missing_percentage <= 100 * 100
        /\ total_rows > 20000 * missing => issue[k].missing_percentage = 0
        /\ (total_rows = 3 /\ missing = 1) => issue[k].missing_percentage = 3333

\* one missing cell of three has been reported as 33.33
C2_Witness ==
    /\ total_rows = 3
    /\ issue = <<[column |-> "a", missing_count |-> 1, missing_percentage |-> 3333]>>

====
